---- MODULE Spec2Model ----
(***************************************************************************)
(* Model of the knowledge ingestion and verification engine of             *)
(* NAMI-RESEARCHER (src/src/rag/rag_ingestion.py, class RAGIngestion).     *)
(*                                                                         *)
(* Text is a sequence of one-character strings.  The Chroma collection is  *)
(* a sequence of persisted records in insertion order.  The embedding      *)
(* model is opaque to the program, so a similarity query may return the    *)
(* stored records in any ranking.                                          *)
(***************************************************************************)
EXTENDS Integers, Sequences, FiniteSets, TLC

(***************************************************************************)
(* Program constants                                                       *)
(***************************************************************************)
MinContentLen == 100
DefaultChunkSize == 1000
DefaultChunkOverlap == 200
VerifyK == 3
ListK == 100
SampleLen == 200
\* manage_rag.search_rag: k and the length of the content it prints
SearchK == 5
SearchSampleLen == 150

(***************************************************************************)
(* Bounds of the model                                                     *)
(***************************************************************************)
MaxClock == 2
\* the similarity rankings considered start at one of the first MaxRotation
\* records of the store
MaxRotation == 6

(***************************************************************************)
(* Text helpers: Python str.strip(), len(), slicing, concatenation         *)
(***************************************************************************)
Whitespace == {" ", "\n", "\t"}

SetMin(S) == CHOOSE x \in S : \A y \in S : x <= y

strip(s) ==
    IF \A i \in 1..Len(s) : s[i] \in Whitespace THEN <<>>
    ELSE LET first == CHOOSE i \in 1..Len(s) :
                         /\ s[i] \notin Whitespace
                         /\ \A j \in 1..(i - 1) : s[j] \in Whitespace
             last == CHOOSE i \in 1..Len(s) :
                         /\ s[i] \notin Whitespace
                         /\ \A j \in (i + 1)..Len(s) : s[j] \in Whitespace
         IN  SubSeq(s, first, last)

Prefix(s, n) == SubSeq(s, 1, IF Len(s) < n THEN Len(s) ELSE n)

Rep(ch, n) == [i \in 1..n |-> ch]

\* The loops of the splitter are folded over index ranges by halving; Done(x)
\* makes the left half's state be computed before the right half starts.
Done(x) == x = x

\* separator.join(docs[a..b])
RECURSIVE JoinRange(_, _, _, _)
JoinRange(ss, a, b, sep) ==
    IF a > b THEN <<>>
    ELSE IF a = b THEN ss[a]
    ELSE LET mid == (a + b) \div 2
         IN  JoinRange(ss, a, mid, sep) \o sep \o JoinRange(ss, mid + 1, b, sep)

\* sum of len(d) for d in docs[a..b]
RECURSIVE SumLens(_, _, _)
SumLens(ss, a, b) ==
    IF a > b THEN 0
    ELSE IF a = b THEN Len(ss[a])
    ELSE LET mid == (a + b) \div 2
         IN  SumLens(ss, a, mid) + SumLens(ss, mid + 1, b)

(***************************************************************************)
(* RecursiveCharacterTextSplitter as configured by add_report:             *)
(* separators, keep_separator = True, strip_whitespace = True, len         *)
(***************************************************************************)
separators ==
    << <<"\n", "#", "#", " ">>, <<"\n", "#", "#", "#", " ">>, <<"\n", "\n">>,
       <<"\n">>, <<" ">>, <<>> >>

MatchAt(text, sep, p) ==
    /\ p + Len(sep) - 1 <= Len(text)
    /\ \A j \in 1..Len(sep) : text[p + j - 1] = sep[j]

Contains(text, sep) == \E p \in 1..Len(text) : MatchAt(text, sep, p)

\* re.split on the separator, scanning the positions lo..hi left to right;
\* each separator is kept at the start of the piece that follows it.
\* st.start is where the current piece begins, st.skip the first position
\* after the last match.
SplitStep(text, sep, p, st) ==
    IF p < st.skip \/ ~MatchAt(text, sep, p) THEN st
    ELSE [pieces |-> IF p > st.start
                     THEN Append(st.pieces, SubSeq(text, st.start, p - 1))
                     ELSE st.pieces,
          start |-> p, skip |-> p + Len(sep)]

RECURSIVE SplitScan(_, _, _, _, _)
SplitScan(text, sep, lo, hi, st) ==
    IF lo > hi THEN st
    ELSE IF lo = hi THEN SplitStep(text, sep, lo, st)
    ELSE LET mid == (lo + hi) \div 2
             left == SplitScan(text, sep, lo, mid, st)
         IN  IF Done(left) THEN SplitScan(text, sep, mid + 1, hi, left) ELSE st

\* _split_text_with_regex that does not cut a text into characters
SplitKeepsRuns(text, sep) ==
    IF sep = <<>> THEN <<text>>
    ELSE LET st == SplitScan(text, sep, 1, Len(text),
                             [pieces |-> <<>>, start |-> 1, skip |-> 1])
         IN  IF st.start <= Len(text)
             THEN Append(st.pieces, SubSeq(text, st.start, Len(text)))
             ELSE st.pieces

split_text_with_regex(text, sep) ==
    IF sep = <<>> THEN [i \in 1..Len(text) |-> <<text[i]>>]
    ELSE LET st == SplitScan(text, sep, 1, Len(text),
                             [pieces |-> <<>>, start |-> 1, skip |-> 1])
         IN  IF st.start <= Len(text)
             THEN Append(st.pieces, SubSeq(text, st.start, Len(text)))
             ELSE st.pieces

\* TextSplitter._join_docs on current_doc = splits[a..b]
join_docs(splits, a, b, sep) == strip(JoinRange(splits, a, b, sep))

SepLenIf(cond, sep) == IF cond THEN Len(sep) ELSE 0

\* the inner while loop of _merge_splits, with current_doc = splits[lo..i-1]:
\* the number of leading pieces it drops and the total it leaves
TotalAfterPop(splits, lo, i, total, sep, j) ==
    total - SumLens(splits, lo, lo + j - 1)
          - Len(sep) * (IF j < i - lo THEN j ELSE i - lo - 1)

KeepsPopping(splits, lo, i, total, dlen, sep, cs, co, j) ==
    LET t == TotalAfterPop(splits, lo, i, total, sep, j)
    IN  \/ t > co
        \/ (t + dlen + SepLenIf(i - lo - j > 0, sep) > cs /\ t > 0)

\* the inner while loop emptying current_doc, so that no overlap is kept
PopAll(splits, lo, i, total, dlen, sep, cs, co) == i - lo

PopCount(splits, lo, i, total, dlen, sep, cs, co) ==
    SetMin({j \in 0..(i - lo) :
               ~KeepsPopping(splits, lo, i, total, dlen, sep, cs, co, j)})

\* one iteration of _merge_splits that starts a new chunk as soon as the
\* current one reaches chunk_size
MergeStepAtLimit(splits, i, st, sep, cs, co) ==
    LET dlen == Len(splits[i])
        over == st.total + dlen + SepLenIf(i - st.lo > 0, sep) >= cs
        flush == over /\ i - st.lo > 0
        doc == join_docs(splits, st.lo, i - 1, sep)
        docs1 == IF flush /\ doc # <<>> THEN Append(st.docs, doc) ELSE st.docs
        j == IF flush THEN PopCount(splits, st.lo, i, st.total, dlen, sep, cs, co)
             ELSE 0
        total1 == TotalAfterPop(splits, st.lo, i, st.total, sep, j)
        lo1 == st.lo + j
    IN  [docs |-> docs1, lo |-> lo1,
         total |-> total1 + dlen + SepLenIf(i + 1 - lo1 > 1, sep)]

\* one iteration of the loop of _merge_splits over splits[i]; the state is
\* docs, current_doc = splits[st.lo..i-1], and total
MergeStep(splits, i, st, sep, cs, co) ==
    LET dlen == Len(splits[i])
        over == st.total + dlen + SepLenIf(i - st.lo > 0, sep) > cs
        flush == over /\ i - st.lo > 0
        doc == join_docs(splits, st.lo, i - 1, sep)
        docs1 == IF flush /\ doc # <<>> THEN Append(st.docs, doc) ELSE st.docs
        j == IF flush THEN PopCount(splits, st.lo, i, st.total, dlen, sep, cs, co)
             ELSE 0
        total1 == TotalAfterPop(splits, st.lo, i, st.total, sep, j)
        lo1 == st.lo + j
    IN  [docs |-> docs1, lo |-> lo1,
         total |-> total1 + dlen + SepLenIf(i + 1 - lo1 > 1, sep)]

RECURSIVE MergeLoop(_, _, _, _, _, _, _)
MergeLoop(splits, lo, hi, st, sep, cs, co) ==
    IF lo > hi THEN st
    ELSE IF lo = hi THEN MergeStep(splits, lo, st, sep, cs, co)
    ELSE LET mid == (lo + hi) \div 2
             left == MergeLoop(splits, lo, mid, st, sep, cs, co)
         IN  IF Done(left) THEN MergeLoop(splits, mid + 1, hi, left, sep, cs, co) ELSE st

\* TextSplitter._merge_splits
merge_splits(splits, sep, cs, co) ==
    LET st == MergeLoop(splits, 1, Len(splits),
                        [docs |-> <<>>, lo |-> 1, total |-> 0], sep, cs, co)
        doc == join_docs(splits, st.lo, Len(splits), sep)
    IN  IF doc # <<>> THEN Append(st.docs, doc) ELSE st.docs

\* index of the separator _split_text picks: the first one that is "" or
\* occurs in the text
RECURSIVE PickSeparator(_, _, _)
PickSeparator(text, seps, i) ==
    IF i >= Len(seps) THEN Len(seps)
    ELSE IF seps[i] = <<>> \/ Contains(text, seps[i]) THEN i
    ELSE PickSeparator(text, seps, i + 1)

\* RecursiveCharacterTextSplitter._split_text; the loop over splits keeps
\* final_chunks and _good_splits
RECURSIVE split_text_rec(_, _, _, _)

FlushGood(st, cs, co) ==
    IF st.good # <<>> THEN st.final \o merge_splits(st.good, <<>>, cs, co)
    ELSE st.final

SplitLoopStep(s, st, newseps, cs, co) ==
    IF Len(s) < cs
    THEN [final |-> st.final, good |-> Append(st.good, s)]
    ELSE [final |-> IF newseps = <<>>
                    THEN Append(FlushGood(st, cs, co), s)
                    ELSE FlushGood(st, cs, co) \o split_text_rec(s, newseps, cs, co),
          good |-> <<>>]

RECURSIVE SplitLoop(_, _, _, _, _, _, _)
SplitLoop(splits, lo, hi, st, newseps, cs, co) ==
    IF lo > hi THEN st
    ELSE IF lo = hi THEN SplitLoopStep(splits[lo], st, newseps, cs, co)
    ELSE LET mid == (lo + hi) \div 2
             left == SplitLoop(splits, lo, mid, st, newseps, cs, co)
         IN  IF Done(left) THEN SplitLoop(splits, mid + 1, hi, left, newseps, cs, co) ELSE st

split_text_rec(text, seps, cs, co) ==
    LET k == PickSeparator(text, seps, 1)
        sep == seps[k]
        newseps == IF sep = <<>> THEN <<>> ELSE SubSeq(seps, k + 1, Len(seps))
        splits == split_text_with_regex(text, sep)
    IN  FlushGood(SplitLoop(splits, 1, Len(splits),
                            [final |-> <<>>, good |-> <<>>], newseps, cs, co),
                  cs, co)

\* the constructor's checks of chunk_size and chunk_overlap
SplitterConfigOk(cs, co) == cs > 0 /\ co >= 0 /\ co <= cs

split_text(text, cs, co) == split_text_rec(text, separators, cs, co)

\* line 104: strip every chunk and drop the empty ones
NonBlank(chunk) == strip(chunk) # <<>>

\* line 104 without the filter
KeepAllChunks(chunks) == chunks

FilterChunks(chunks) ==
    LET kept == SelectSeq(chunks, NonBlank)
    IN  [i \in 1..Len(kept) |-> strip(kept[i])]

(***************************************************************************)
(* Inputs: report texts, topics, caller metadata, splitter settings        *)
(***************************************************************************)
EmptyText == <<>>
BlankText == Rep(" ", MinContentLen + 20)
ShortText == <<"s", "h", "o", "r", "t">>
\* 99 characters between leading and trailing whitespace
PaddedShortText == <<" ", " ", "\n">> \o Rep("p", MinContentLen - 1) \o <<"\n", " ">>
\* exactly 100 characters after trimming
ExactText == <<" ">> \o Rep("e", MinContentLen) \o <<"\n">>
\* 100 characters of which 98 are spaces
SparseText == <<"e">> \o Rep(" ", MinContentLen - 2) \o <<"e">>
\* one chunk longer than the sample verify_ingestion returns
WideText == Rep("w", SampleLen + 5)
\* a document of 1,500 characters, as one unbroken run and as three paragraphs
ScenarioRun == Rep("r", DefaultChunkSize + 500)
ScenarioParagraphs ==
    Rep("a", 400) \o <<"\n", "\n">> \o Rep("b", 700) \o <<"\n", "\n">>
    \o Rep("c", 396)
\* a report with two headings and words of four letters
WordLine(ch, n) == JoinRange([i \in 1..n |-> Rep(ch, 4)], 1, n, <<" ">>)
LongText ==
    <<"#", " ", "T", "\n", "\n">> \o WordLine("u", 8)
    \o <<"\n", "#", "#", " ", "H", "\n">> \o WordLine("v", 8)
    \o <<"\n", "\n">> \o WordLine("w", 8)

Contents ==
    {EmptyText, BlankText, ShortText, PaddedShortText, ExactText, SparseText,
     WideText, LongText}
Topics == {"A", "B"}
CollectionName == "research_reports"

NoMetadata == <<>>
Metadatas ==
    {NoMetadata, [topic |-> "B"], [source |-> "manual"], [created_at |-> 0],
     [collection |-> "other", chunk_id |-> 9]}

SmallChunkSize == 45
SmallChunkOverlap == 10
Sizes ==
    { <<DefaultChunkSize, DefaultChunkOverlap>>,
      <<SmallChunkSize, SmallChunkOverlap>>,
      <<SmallChunkOverlap, SmallChunkSize>>,
      <<1, 0>> }

\* reports split with a chunk_size one below, at and one above their length
BoundaryTexts == {ExactText, SparseText, WideText, LongText}
BoundaryArgs ==
    {[content |-> c, topic |-> "A", metadata |-> NoMetadata,
      chunk_size |-> Len(c) + d, chunk_overlap |-> o] :
        c \in BoundaryTexts, d \in {-1, 0, 1}, o \in {0, SmallChunkOverlap}}

\* the 1,500-character documents split with the default sizes, and a run
\* of characters split into several chunks
ScenarioArgs ==
    [content : {ScenarioRun, ScenarioParagraphs}, topic : {"B"},
     metadata : {NoMetadata},
     chunk_size : {DefaultChunkSize}, chunk_overlap : {DefaultChunkOverlap}]
    \cup {[content |-> ScenarioParagraphs, topic |-> "B", metadata |-> NoMetadata,
           chunk_size |-> DefaultChunkSize \div 2,
           chunk_overlap |-> DefaultChunkOverlap],
          [content |-> WideText, topic |-> "B", metadata |-> NoMetadata,
           chunk_size |-> SmallChunkSize, chunk_overlap |-> SmallChunkOverlap]}

\* a report split with chunk_overlap equal to chunk_size and one above it
OverlapArgs ==
    {[content |-> WideText, topic |-> "A", metadata |-> NoMetadata,
      chunk_size |-> Len(WideText) - 1, chunk_overlap |-> Len(WideText) - 1 + d] :
        d \in {0, 1}}

\* the add_report calls the model makes
AddReportArgs ==
    [content : Contents \ {SparseText, LongText}, topic : {"A"},
     metadata : {NoMetadata},
     chunk_size : {DefaultChunkSize}, chunk_overlap : {DefaultChunkOverlap}]
    \cup [content : {ExactText}, topic : {"A"}, metadata : Metadatas,
          chunk_size : {DefaultChunkSize}, chunk_overlap : {DefaultChunkOverlap}]
    \cup {[content |-> LongText, topic |-> t, metadata |-> NoMetadata,
           chunk_size |-> SmallChunkSize, chunk_overlap |-> SmallChunkOverlap] :
              t \in Topics}
    \cup {[content |-> LongText, topic |-> "B", metadata |-> NoMetadata,
           chunk_size |-> SmallChunkOverlap, chunk_overlap |-> SmallChunkSize],
          [content |-> SparseText, topic |-> "B", metadata |-> NoMetadata,
           chunk_size |-> 1, chunk_overlap |-> 0]}

\* the report entries add_multiple_reports is given; the last one has no
\* "content" key
GoodEntry(topic) == [content |-> ExactText, topic |-> topic]
TaggedEntry(topic) ==
    [content |-> ExactText, topic |-> topic, metadata |-> [source |-> "manual"]]
EmptyEntry(topic) == [content |-> EmptyText, topic |-> topic]
NoContentEntry(topic) == [topic |-> topic]

\* the report lists the model gives to add_multiple_reports
Batches ==
    { <<>>,
      <<GoodEntry("A")>>,
      <<EmptyEntry("A"), TaggedEntry("B")>>,
      <<GoodEntry("A"), EmptyEntry("B"), GoodEntry("B")>>,
      <<GoodEntry("B"), NoContentEntry("A"), GoodEntry("A")>>,
      <<NoContentEntry("B")>> }

(***************************************************************************)
(* add_report, lines 68-123: everything before the store is opened         *)
(***************************************************************************)
\* dict.update
Update(d, m) ==
    [k \in DOMAIN d \cup DOMAIN m |-> IF k \in DOMAIN m THEN m[k] ELSE d[k]]

\* lines 83-91
DocMetadata(topic, metadata, now) ==
    Update([topic |-> topic, source |-> "research_report",
            created_at |-> now, collection |-> CollectionName],
           metadata)

\* lines 94-104; the split of each text of the model is computed once
SplitTable ==
    [k \in {<<c, sz[1], sz[2]>> : c \in Contents,
                                  sz \in {z \in Sizes : SplitterConfigOk(z[1], z[2])}}
            \cup {<<a.content, a.chunk_size, a.chunk_overlap>> :
                     a \in BoundaryArgs \cup ScenarioArgs
                       \cup {o \in OverlapArgs :
                                SplitterConfigOk(o.chunk_size, o.chunk_overlap)}}
       |-> FilterChunks(split_text(k[1], k[2], k[3]))]

Chunks(content, cs, co) == SplitTable[<<content, cs, co>>]

\* lines 117-123 with enumerate(chunks, 1)
ChunkMetadataFromOne(doc_metadata, i, n) ==
    Update(doc_metadata, [chunk_id |-> i, total_chunks |-> n])

\* lines 117-123
ChunkMetadata(doc_metadata, i, n) ==
    Update(doc_metadata, [chunk_id |-> i - 1, total_chunks |-> n])

\* lines 117-123 with the ids given from the last chunk to the first, as when
\* the chunks are numbered in the order a later stage finishes them
DocumentsNumberedBackwards(chunks, doc_metadata) ==
    [i \in 1..Len(chunks) |->
        [page_content |-> chunks[i],
         metadata |-> ChunkMetadata(doc_metadata, Len(chunks) + 1 - i,
                                    Len(chunks))]]

Documents(chunks, doc_metadata) ==
    [i \in 1..Len(chunks) |->
        [page_content |-> chunks[i],
         metadata |-> ChunkMetadata(doc_metadata, i, Len(chunks))]]

\* the results add_report returns
TooShortError == "Report content is too short or empty (minimum 100 characters required)"
NoChunksError == "No valid text chunks could be generated from report"

TooShortResult(content, topic) ==
    [success |-> FALSE, error |-> TooShortError, topic |-> topic,
     message |-> <<"Skipped RAG ingestion: report too short", Len(content)>>]

NoChunksResult(topic) ==
    [success |-> FALSE, error |-> NoChunksError, topic |-> topic,
     message |-> <<"Report could not be split into valid chunks">>]

FailedResult(topic, e) ==
    [success |-> FALSE, error |-> e, topic |-> topic,
     message |-> <<"Failed to add report", e>>]

AddedResult(topic, n) ==
    [success |-> TRUE, chunks_added |-> n, topic |-> topic,
     collection |-> CollectionName,
     message |-> <<"Added chunks to knowledge base", n>>]

\* line 70 without the strip()
TooShortUntrimmed(content) == content = <<>> \/ Len(content) < MinContentLen

\* line 70
TooShort(content) == content = <<>> \/ Len(strip(content)) < MinContentLen

\* lines 68-123: either a result to return or the documents to write
Prepare(a, now) ==
    IF TooShort(a.content)
    THEN [write |-> FALSE, result |-> TooShortResult(a.content, a.topic)]
    ELSE IF ~SplitterConfigOk(a.chunk_size, a.chunk_overlap)
    THEN [write |-> FALSE, result |-> FailedResult(a.topic, "ValueError")]
    ELSE LET chunks == Chunks(a.content, a.chunk_size, a.chunk_overlap)
         IN  IF chunks = <<>>
             THEN [write |-> FALSE, result |-> NoChunksResult(a.topic)]
             ELSE [write |-> TRUE,
                   documents |-> Documents(chunks,
                                    DocMetadata(a.topic, a.metadata, now))]

(***************************************************************************)
(* Initial values of the terminal output, the LLM configuration and the    *)
(* report tool                                                             *)
(***************************************************************************)
\* OutputManager.__init__: no spinner is active; the caller is in no spinner
\* context
NoSpinner == 0
OutInit ==
    [spinners |-> <<>>, active |-> NoSpinner, ctx |-> <<>>, line |-> NoSpinner,
     last |-> "none"]

\* ProgressDisplay.__init__: not active, no spinner thread, the stop event
\* clear, and no caller inside stop()
PdInit ==
    [active |-> FALSE, stop_event |-> FALSE, spinner_thread |-> NoSpinner,
     threads |-> <<>>, line |-> NoSpinner, caller |-> <<"idle", "idle">>]
\* src/src/config.py before the module is imported: Python's None for a
\* model name, a temperature (in tenths) and the LLM instance
NoModel == "None"
NoTemperature == -1
NoInstance == [model |-> NoModel, temperature |-> NoTemperature]
NoOp == [name |-> "none", model |-> NoModel, temperature |-> NoTemperature]
LlmInit ==
    [imported |-> FALSE, instance |-> NoInstance, env |-> NoModel,
     config_model |-> NoModel, config_temp |-> NoTemperature,
     op |-> NoOp, before |-> NoInstance, ret |-> NoInstance,
     updated |-> NoModel, agent |-> NoInstance]
\* no save_report_and_ingest call is running and reports/ is empty
ToolInit ==
    [phase |-> "idle", args |-> [none |-> TRUE], files |-> {},
     files_before |-> {}, store_before |-> <<>>, md_saved |-> FALSE,
     attempted |-> FALSE, rag_status |-> [none |-> TRUE], message |-> <<>>]

(***************************************************************************)
(* State                                                                   *)
(***************************************************************************)
Threads == {1, 2}
\* the caller that runs alone
Sequential == {1}
None == [none |-> TRUE]

VARIABLES
    store,   \* the Chroma collection: the persisted records, oldest first
    clock,   \* datetime.now(), read once by every call that passes line 70
    pc,      \* per thread: "idle", "write", "batch", "returned", "raised",
             \* "hung"
    call,    \* per thread: the current add_report call: its arguments, the
             \* id its documents are stored under, the documents it built
    result,  \* per thread: what the last add_report returned
    batch,   \* per thread: the add_multiple_reports call in progress
    rd       \* a verify_ingestion, list_ingested_reports or search that has
             \* just run: whether it reached the store, and its result (for
             \* list_ingested_reports also the order the store ranked its
             \* records in); its caller takes the result before the next step

VARIABLES
    out,     \* the OutputManager: its spinners, _active_spinner, the spinner
             \* contexts the caller is in, and the last operation that ended
    pd,      \* the ProgressDisplay and its spinner threads
    llm,     \* src/src/config.py: _llm_instance, MODEL_NAME, TEMPERATURE
    tool     \* the save_report_and_ingest call in progress and the files
             \* under reports/

aux == <<out, pd, llm, tool>>

vars == <<store, clock, pc, call, result, batch, rd, out, pd, llm, tool>>

Init ==
    /\ store = <<>>
    /\ clock = 0
    /\ pc = [t \in Threads |-> "idle"]
    /\ call = [t \in Threads |-> None]
    /\ result = [t \in Threads |-> None]
    /\ batch = [t \in Threads |-> None]
    /\ rd = None
    /\ out = OutInit
    /\ pd = PdInit
    /\ llm = LlmInit
    /\ tool = ToolInit

(***************************************************************************)
(* The vector store                                                        *)
(***************************************************************************)
\* what opening the store and add_documents can do: the Chroma constructor
\* or the upsert raises, the embedding of the batch raises, or the whole
\* batch is persisted
WriteOutcomes == {"ok", "StoreUnavailable", "EmbeddingUnavailable"}

\* the entries of a batch that read the clock
ClockReads(reports) ==
    Cardinality({i \in 1..Len(reports) :
                    "content" \in DOMAIN reports[i] /\ ~TooShort(reports[i].content)})

\* line 133: one add_documents call with all the documents of the report;
\* every document gets an id of its own
Persisted(documents, id) ==
    [i \in 1..Len(documents) |->
        [id |-> <<id, i>>, page_content |-> documents[i].page_content,
         metadata |-> documents[i].metadata]]

\* line 133 with ids derived from text and topic: a document already stored
\* is written over
AddDocumentsByContent(st, documents, id) ==
    LET Stored(d) == \E k \in 1..Len(st) :
                         /\ st[k].page_content = d.page_content
                         /\ st[k].metadata.topic = d.metadata.topic
        IsNew(r) == ~Stored(r)
    IN  st \o SelectSeq(Persisted(documents, id), IsNew)

AddDocuments(st, documents, id) == st \o Persisted(documents, id)

\* the records of the store that were written by the add_documents call id
RecordsOf(st, id) == SelectSeq(st, LAMBDA r : r.id[1] = id)

\* The rankings a similarity query is tried with: the embedding model decides
\* the order, so the model takes the insertion order and its reverse, each
\* started at one of the first MaxRotation records and wrapping around.
Rotation(n, first, forward) ==
    [i \in 1..n |-> IF forward THEN ((first + i - 2) % n) + 1
                    ELSE ((first - i + n) % n) + 1]

Rankings(n) ==
    IF n = 0 THEN {<<>>}
    ELSE {Rotation(n, first, fw) :
              first \in 1..(IF n < MaxRotation THEN n ELSE MaxRotation),
              fw \in BOOLEAN}

\* retriever.invoke with search_kwargs k: the k best-ranked records
TopK(st, ranking, k) ==
    [i \in 1..(IF Len(st) < k THEN Len(st) ELSE k) |-> st[ranking[i]]]

\* what a read of the store can do
ReadOutcomes == {"ok", "StoreUnavailable"}

(***************************************************************************)
(* add_report                                                              *)
(***************************************************************************)
\* lines 178-183 without the else branch
TallyNoFailed(b, res) ==
    [reports |-> b.reports, i |-> b.i + 1,
     successful |-> b.successful + (IF res.success THEN 1 ELSE 0),
     failed |-> b.failed,
     details |-> Append(b.details, res)]

\* lines 178-183: add_multiple_reports tallies the result of one report
Tally(b, res) ==
    [reports |-> b.reports, i |-> b.i + 1,
     successful |-> b.successful + (IF res.success THEN 1 ELSE 0),
     failed |-> b.failed + (IF res.success THEN 0 ELSE 1),
     details |-> Append(b.details, res)]

\* lines 68-123 with the documents kept in a list all calls share: a call
\* that builds its documents replaces those of a call still waiting to write
StartReportSharedList(t, a) ==
    LET p == Prepare(a, clock + 1)
    IN  /\ clock' = IF TooShort(a.content) THEN clock ELSE clock + 1
        /\ IF p.write
           THEN /\ pc' = [pc EXCEPT ![t] = "write"]
                /\ call' = [u \in Threads |->
                               IF u = t
                               THEN [args |-> a, id |-> clock + 1,
                                     documents |-> p.documents]
                               ELSE IF pc[u] = "write"
                               THEN [call[u] EXCEPT !.documents = p.documents]
                               ELSE call[u]]
                /\ UNCHANGED <<result, batch>>
           ELSE /\ call' = [call EXCEPT ![t] =
                               [args |-> a, id |-> 0, documents |-> <<>>]]
                /\ pc' = [pc EXCEPT ![t] = "returned"]
                /\ result' = [result EXCEPT ![t] = p.result]
                /\ UNCHANGED batch
        /\ UNCHANGED <<store, rd, aux>>

\* lines 68-123 of one call, made directly or by add_multiple_reports
StartReport(t, a) ==
    LET p == Prepare(a, clock + 1)
    IN  /\ clock' = IF TooShort(a.content) THEN clock ELSE clock + 1
        /\ IF p.write
           THEN /\ pc' = [pc EXCEPT ![t] = "write"]
                /\ call' = [call EXCEPT ![t] =
                               [args |-> a, id |-> clock + 1,
                                documents |-> p.documents]]
                /\ UNCHANGED <<result, batch>>
           ELSE /\ call' = [call EXCEPT ![t] =
                               [args |-> a, id |-> 0, documents |-> <<>>]]
                /\ IF batch[t] = None
                   THEN /\ pc' = [pc EXCEPT ![t] = "returned"]
                        /\ result' = [result EXCEPT ![t] = p.result]
                        /\ UNCHANGED batch
                   ELSE /\ pc' = [pc EXCEPT ![t] = "batch"]
                        /\ batch' = [batch EXCEPT ![t] = Tally(batch[t], p.result)]
                        /\ UNCHANGED result
        /\ UNCHANGED <<store, rd, aux>>

AddReportCall(t, a) ==
    /\ rd = None
    /\ pc[t] = "idle"
    /\ TooShort(a.content) \/ clock < MaxClock
    /\ StartReport(t, a)

\* lines 125-158: open the store, add the documents, return
WriteResult(c, outcome) ==
    IF outcome = "ok" THEN AddedResult(c.args.topic, Len(c.documents))
    ELSE FailedResult(c.args.topic, outcome)

\* an add that has persisted the first document when it raises
WriteStorePartial(st, c, outcome) ==
    IF outcome = "ok" THEN AddDocuments(st, c.documents, c.id)
    ELSE AddDocuments(st, SubSeq(c.documents, 1, 1), c.id)

WriteStore(st, c, outcome) ==
    IF outcome = "ok" THEN AddDocuments(st, c.documents, c.id) ELSE st

\* lines 125-158 with one add per document instead of one add_documents call
AddReportWritePerChunk(t, outcome) ==
    /\ rd = None
    /\ pc[t] = "write"
    /\ LET c == call[t]
           k == Len(RecordsOf(store, c.id))
           last == outcome # "ok" \/ k + 1 = Len(c.documents)
       IN  /\ store' = IF outcome = "ok"
                       THEN Append(store, Persisted(c.documents, c.id)[k + 1])
                       ELSE store
           /\ IF ~last THEN UNCHANGED <<pc, result, batch>>
              ELSE IF batch[t] = None
              THEN /\ pc' = [pc EXCEPT ![t] = "returned"]
                   /\ result' = [result EXCEPT ![t] = WriteResult(c, outcome)]
                   /\ UNCHANGED batch
              ELSE /\ pc' = [pc EXCEPT ![t] = "batch"]
                   /\ batch' = [batch EXCEPT ![t] =
                                   Tally(batch[t], WriteResult(c, outcome))]
                   /\ UNCHANGED result
    /\ UNCHANGED <<clock, call, rd, aux>>

AddReportWrite(t, outcome) ==
    /\ rd = None
    /\ pc[t] = "write"
    /\ store' = WriteStore(store, call[t], outcome)
    /\ IF batch[t] = None
       THEN /\ pc' = [pc EXCEPT ![t] = "returned"]
            /\ result' = [result EXCEPT ![t] = WriteResult(call[t], outcome)]
            /\ UNCHANGED batch
       ELSE /\ pc' = [pc EXCEPT ![t] = "batch"]
            /\ batch' = [batch EXCEPT ![t] =
                            Tally(batch[t], WriteResult(call[t], outcome))]
            /\ UNCHANGED result
    /\ UNCHANGED <<clock, call, rd, aux>>

\* lines 125-133 when the store or the embedding service never answers:
\* the calls are synchronous and are given no timeout, so the caller waits
AddReportHang(t) ==
    /\ rd = None
    /\ pc[t] = "write"
    /\ pc' = [pc EXCEPT ![t] = "hung"]
    /\ UNCHANGED <<store, clock, call, result, batch, rd, aux>>

(***************************************************************************)
(* add_multiple_reports                                                    *)
(***************************************************************************)
\* line 169
AddMultipleCall(t, reports) ==
    /\ rd = None
    /\ pc[t] = "idle"
    /\ clock + ClockReads(reports) <= MaxClock
    /\ pc' = [pc EXCEPT ![t] = "batch"]
    /\ batch' = [batch EXCEPT ![t] =
                    [reports |-> reports, i |-> 1, successful |-> 0,
                     failed |-> 0, details |-> <<>>]]
    /\ UNCHANGED <<store, clock, call, result, rd, aux>>

\* report["content"], report["topic"], report.get("metadata", {})
EntryArgs(report) ==
    [content |-> report.content, topic |-> report.topic,
     metadata |-> IF "metadata" \in DOMAIN report THEN report.metadata
                  ELSE NoMetadata,
     chunk_size |-> DefaultChunkSize, chunk_overlap |-> DefaultChunkOverlap]

WellFormed(report) == {"content", "topic"} \subseteq DOMAIN report

\* lines 171-176: the next report of the loop; a missing key raises KeyError
\* out of add_multiple_reports
BatchNext(t) ==
    /\ rd = None
    /\ pc[t] = "batch"
    /\ batch[t].i <= Len(batch[t].reports)
    /\ LET report == batch[t].reports[batch[t].i]
       IN  IF WellFormed(report)
           THEN /\ TooShort(report.content) \/ clock < MaxClock
                /\ StartReport(t, EntryArgs(report))
           ELSE /\ pc' = [pc EXCEPT ![t] = "raised"]
                /\ UNCHANGED <<store, clock, call, result, batch, rd, aux>>

\* lines 185-189
BatchReturn(t) ==
    /\ rd = None
    /\ pc[t] = "batch"
    /\ batch[t].i > Len(batch[t].reports)
    /\ pc' = [pc EXCEPT ![t] = "returned"]
    /\ result' = [result EXCEPT ![t] =
                     [successful |-> batch[t].successful,
                      failed |-> batch[t].failed,
                      details |-> batch[t].details]]
    /\ UNCHANGED <<store, clock, call, batch, rd, aux>>

(***************************************************************************)
(* verify_ingestion and list_ingested_reports                              *)
(***************************************************************************)
NoneText == <<"None">>

\* line 214 with a test for the presence of a topic only
HasTopicPresent(doc, topic) == "topic" \in DOMAIN doc.metadata

\* doc.metadata.get("topic") == topic
HasTopic(doc, topic) ==
    "topic" \in DOMAIN doc.metadata /\ doc.metadata.topic = topic

\* the query argument of verify_ingestion: absent, or a text of the caller's
NoQuery == ""
Queries == {NoQuery, "findings"}

\* line 209: query or topic
SearchQuery(topic, query) == IF query = NoQuery THEN topic ELSE query

\* lines 214-223 with every result counted as a match
VerifyResultCountsAll(docs, topic) ==
    [found |-> Len(docs) > 0,
     chunks_found |-> Len(docs),
     total_results |-> Len(docs),
     sample_content |-> IF docs # <<>>
                        THEN Prefix(docs[1].page_content, SampleLen)
                        ELSE NoneText]

\* lines 214-223
VerifyResult(docs, topic) ==
    LET IsTopic(doc) == HasTopic(doc, topic)
        topic_docs == SelectSeq(docs, IsTopic)
    IN  [found |-> Len(topic_docs) > 0,
         chunks_found |-> Len(topic_docs),
         total_results |-> Len(docs),
         sample_content |-> IF topic_docs # <<>>
                            THEN Prefix(topic_docs[1].page_content, SampleLen)
                            ELSE NoneText]

\* lines 201-227 with the query kept in the collection
VerifyIngestionLogged(topic, query, outcome, ranking) ==
    /\ rd = None
    /\ rd' = [op |-> "verify_ingestion", topic |-> topic,
              search_query |-> SearchQuery(topic, query),
              store_ok |-> outcome = "ok",
              result |-> IF outcome = "ok"
                         THEN VerifyResult(TopK(store, ranking, VerifyK), topic)
                         ELSE [found |-> FALSE, error |-> outcome]]
    /\ store' = IF outcome = "ok" /\ Len(store) < VerifyK
                THEN Append(store, [id |-> <<0, Len(store)>>,
                                    page_content |-> <<"q">>,
                                    metadata |-> [topic |-> topic,
                                                  created_at |-> clock]])
                ELSE store
    /\ UNCHANGED <<clock, pc, call, result, batch, aux>>

\* lines 201-227; the ranking is the one the store gives for the search query
VerifyIngestion(topic, query, outcome, ranking) ==
    /\ rd = None
    /\ rd' = [op |-> "verify_ingestion", topic |-> topic,
              search_query |-> SearchQuery(topic, query),
              store_ok |-> outcome = "ok",
              result |-> IF outcome = "ok"
                         THEN VerifyResult(TopK(store, ranking, VerifyK), topic)
                         ELSE [found |-> FALSE, error |-> outcome]]
    /\ UNCHANGED <<store, clock, pc, call, result, batch, aux>>

\* lines 251-258 with the entry of a topic replaced by every later chunk
ListStepKeepsLast(doc, topics) ==
    LET md == doc.metadata
        entry == [topic |-> md.topic, created_at |-> md.created_at,
                  chunks |-> md.total_chunks]
        at == {j \in 1..Len(topics) : topics[j].topic = md.topic}
    IN  IF md.topic = "" THEN topics
        ELSE IF at = {} THEN Append(topics, entry)
        ELSE [topics EXCEPT ![SetMin(at)] = entry]

\* lines 251-258: one record of the sample
ListStep(doc, topics) ==
    LET md == doc.metadata
        seen == {topics[j].topic : j \in 1..Len(topics)}
    IN  IF "topic" \in DOMAIN md /\ md.topic # "" /\ md.topic \notin seen
        THEN Append(topics,
                 [topic |-> md.topic,
                  created_at |-> IF "created_at" \in DOMAIN md
                                 THEN md.created_at ELSE -1,
                  chunks |-> IF "total_chunks" \in DOMAIN md
                             THEN md.total_chunks ELSE 1])
        ELSE topics

\* the loop of line 250 over docs[lo..hi]
RECURSIVE ListFold(_, _, _, _)
ListFold(docs, lo, hi, topics) ==
    IF lo > hi THEN topics
    ELSE IF lo = hi THEN ListStep(docs[lo], topics)
    ELSE LET mid == (lo + hi) \div 2
             left == ListFold(docs, lo, mid, topics)
         IN  IF Done(left) THEN ListFold(docs, mid + 1, hi, left) ELSE topics

\* lines 249-259: the first record of every topic, in ranking order
ListLoop(docs, i, topics) == ListFold(docs, i, Len(docs), topics)

\* lines 235-263
ListIngestedReports(outcome, ranking) ==
    /\ rd = None
    /\ rd' = [op |-> "list_ingested_reports",
              store_ok |-> outcome = "ok",
              ranking |-> ranking,
              result |-> IF outcome = "ok"
                         THEN ListLoop(TopK(store, ranking, ListK), 1, <<>>)
                         ELSE <<>>]
    /\ UNCHANGED <<store, clock, pc, call, result, batch, aux>>

\* manage_rag.search_rag: what it prints for every result
SearchLine(doc) ==
    [topic |-> IF "topic" \in DOMAIN doc.metadata
               THEN doc.metadata.topic ELSE "Unknown",
     created |-> IF "created_at" \in DOMAIN doc.metadata
                 THEN doc.metadata.created_at ELSE -1,
     chunk_id |-> IF "chunk_id" \in DOMAIN doc.metadata
                  THEN doc.metadata.chunk_id ELSE -1,
     content |-> Prefix(doc.page_content, SearchSampleLen)]

\* manage_rag.search_rag with the default k
SearchRag(outcome, ranking) ==
    /\ rd = None
    /\ rd' = [op |-> "search_rag",
              store_ok |-> outcome = "ok",
              result |-> IF outcome = "ok"
                         THEN LET docs == TopK(store, ranking, SearchK)
                              IN  [i \in 1..Len(docs) |-> SearchLine(docs[i])]
                         ELSE <<>>]
    /\ UNCHANGED <<store, clock, pc, call, result, batch, aux>>

\* the caller of a read takes its result
ReadReturn ==
    /\ rd # None
    /\ rd' = None
    /\ UNCHANGED <<store, clock, pc, call, result, batch, aux>>

\* the caller takes the result (or the exception) and may call again
Return(t) ==
    /\ rd = None
    /\ pc[t] \in {"returned", "raised"}
    /\ pc' = [pc EXCEPT ![t] = "idle"]
    /\ result' = [result EXCEPT ![t] = None]
    /\ batch' = [batch EXCEPT ![t] = None]
    /\ call' = [call EXCEPT ![t] = None]
    /\ UNCHANGED <<store, clock, rd, aux>>

Next ==
    \/ \E t \in Sequential, a \in AddReportArgs : AddReportCall(t, a)
    \/ \E t \in Sequential, o \in WriteOutcomes : AddReportWrite(t, o)
    \/ \E t \in Sequential, rs \in Batches : AddMultipleCall(t, rs)
    \/ \E t \in Sequential : BatchNext(t)
    \/ \E t \in Sequential : BatchReturn(t)
    \/ \E t \in Sequential : Return(t)
    \/ \E topic \in Topics, r \in Rankings(Len(store)) :
          VerifyIngestion(topic, NoQuery, "ok", r)
    \/ \E topic \in Topics :
          VerifyIngestion(topic, NoQuery, "StoreUnavailable", <<>>)
    \/ \E r \in Rankings(Len(store)) : ListIngestedReports("ok", r)
    \/ ListIngestedReports("StoreUnavailable", <<>>)
    \/ ReadReturn

Spec == Init /\ [][Next]_vars

(***************************************************************************)
(* Reading a collection that holds more records than one sample: reports   *)
(* of 100 chunks, of 3 chunks, of one chunk stored with an empty topic and *)
(* of one chunk longer than a sample                                       *)
(***************************************************************************)
ListArgs ==
    {[content |-> ExactText, topic |-> "A", metadata |-> NoMetadata,
      chunk_size |-> 1, chunk_overlap |-> 0],
     [content |-> LongText, topic |-> "B", metadata |-> NoMetadata,
      chunk_size |-> SmallChunkSize, chunk_overlap |-> SmallChunkOverlap],
     [content |-> ExactText, topic |-> "A", metadata |-> [topic |-> ""],
      chunk_size |-> DefaultChunkSize, chunk_overlap |-> DefaultChunkOverlap],
     [content |-> WideText, topic |-> "B", metadata |-> NoMetadata,
      chunk_size |-> DefaultChunkSize, chunk_overlap |-> DefaultChunkOverlap]}

NextList ==
    \/ \E t \in Sequential, a \in ListArgs : AddReportCall(t, a)
    \/ \E t \in Sequential, o \in WriteOutcomes : AddReportWrite(t, o)
    \/ \E t \in Sequential : Return(t)
    \/ \E r \in Rankings(Len(store)) : ListIngestedReports("ok", r)
    \/ ListIngestedReports("StoreUnavailable", <<>>)
    \/ \E topic \in Topics, q \in Queries, o \in ReadOutcomes,
          r \in Rankings(Len(store)) : VerifyIngestion(topic, q, o, r)
    \/ \E o \in ReadOutcomes, r \in Rankings(Len(store)) : SearchRag(o, r)
    \/ ReadReturn

SpecList == Init /\ [][NextList]_vars

(***************************************************************************)
(* Two callers ingesting different reports at the same time                *)
(***************************************************************************)
ConcurrentArgs(t) ==
    IF t = 1
    THEN {[content |-> LongText, topic |-> "A", metadata |-> NoMetadata,
           chunk_size |-> SmallChunkSize, chunk_overlap |-> SmallChunkOverlap],
          [content |-> ShortText, topic |-> "A", metadata |-> NoMetadata,
           chunk_size |-> DefaultChunkSize,
           chunk_overlap |-> DefaultChunkOverlap]}
    ELSE {[content |-> SparseText, topic |-> "B", metadata |-> NoMetadata,
           chunk_size |-> 1, chunk_overlap |-> 0],
          [content |-> WideText, topic |-> "B", metadata |-> NoMetadata,
           chunk_size |-> DefaultChunkSize,
           chunk_overlap |-> DefaultChunkOverlap]}

NextConcurrent ==
    \/ \E t \in Threads : \E a \in ConcurrentArgs(t) : AddReportCall(t, a)
    \/ \E t \in Threads, o \in WriteOutcomes : AddReportWrite(t, o)
    \/ \E t \in Threads : Return(t)

SpecConcurrent == Init /\ [][NextConcurrent]_vars

(***************************************************************************)
(* Reports split at the boundary of chunk_size                             *)
(***************************************************************************)
NextSplit ==
    \/ \E t \in Sequential, a \in BoundaryArgs \cup ScenarioArgs \cup OverlapArgs :
          AddReportCall(t, a)
    \/ \E t \in Sequential, o \in WriteOutcomes : AddReportWrite(t, o)
    \/ \E t \in Sequential : Return(t)

SpecSplit == Init /\ [][NextSplit]_vars

(***************************************************************************)
(* Batches whose store or embedding call may never answer. Every step the  *)
(* program can take is taken in the end; a call that waits for the store   *)
(* has no step to take.                                                    *)
(***************************************************************************)
WellFormedBatches ==
    {rs \in Batches : \A i \in 1..Len(rs) : WellFormed(rs[i])}

NextBatch ==
    \/ \E t \in Sequential, rs \in WellFormedBatches : AddMultipleCall(t, rs)
    \/ \E t \in Sequential : BatchNext(t)
    \/ \E t \in Sequential, o \in WriteOutcomes : AddReportWrite(t, o)
    \/ \E t \in Sequential : AddReportHang(t)
    \/ \E t \in Sequential : BatchReturn(t)
    \/ \E t \in Sequential : Return(t)

SpecBatch == Init /\ [][NextBatch]_vars /\ WF_vars(NextBatch)

(***************************************************************************)
(* OutputManager and Spinner (src/src/ui/output_manager.py, spinner.py)    *)
(*                                                                         *)
(* out.spinners are the Spinner objects made so far, out.active is         *)
(* _active_spinner, out.ctx the spinner contexts the caller is in          *)
(* (innermost last), out.line the spinner whose frame is on the current    *)
(* line of the terminal.                                                   *)
(***************************************************************************)
MaxSpinners == 3
MaxDepth == 2

ragvars == <<store, clock, pc, call, result, batch, rd>>

\* Spinner.__init__
NewSpinner ==
    [stopped |-> FALSE, stop_event |-> FALSE, thread |-> "none", final |-> "none"]

\* Spinner.start: a stopped spinner is not started again
SpinnerStart(sp) ==
    IF sp.stopped THEN sp ELSE [sp EXCEPT !.thread = "running"]

\* Spinner.stop; joined says whether the render thread ended within the
\* 0.3 s of the join
SpinnerStop(sp, success, joined) ==
    IF sp.stopped THEN sp
    ELSE [sp EXCEPT !.stopped = TRUE,
                    !.stop_event = TRUE,
                    !.thread = IF @ = "running" /\ joined THEN "done" ELSE @,
                    !.final = IF success THEN "ok" ELSE "failed"]

\* the final line of a spinner that stop() stops replaces its frame
LineAfterStop(sp, id, line) ==
    IF ~sp.stopped /\ line = id THEN NoSpinner ELSE line

\* OutputManager.spinner up to the yield
EnterSpinner(joined) ==
    /\ Len(out.spinners) < MaxSpinners
    /\ Len(out.ctx) < MaxDepth
    /\ LET a == out.active
           stopped == IF a # NoSpinner
                      THEN [out.spinners EXCEPT ![a] = SpinnerStop(@, TRUE, joined)]
                      ELSE out.spinners
           id == Len(out.spinners) + 1
       IN  out' = [spinners |-> Append(stopped, SpinnerStart(NewSpinner)),
                   active |-> id,
                   ctx |-> Append(out.ctx, id),
                   line |-> IF a # NoSpinner
                            THEN LineAfterStop(out.spinners[a], a, out.line)
                            ELSE out.line,
                   last |-> "enter"]
    /\ UNCHANGED <<ragvars, pd, llm, tool>>

\* OutputManager._safe_output
SafeOutput(joined) ==
    /\ LET a == out.active
       IN  out' = IF a = NoSpinner
                  THEN [out EXCEPT !.line = NoSpinner, !.last = "print"]
                  ELSE [out EXCEPT
                           !.spinners[a] = SpinnerStart(SpinnerStop(@, TRUE, joined)),
                           !.active = a,
                           !.line = NoSpinner,
                           !.last = "print"]
    /\ UNCHANGED <<ragvars, pd, llm, tool>>

\* OutputManager.spinner after the yield: the body ended, with or without
\* an exception
ExitSpinner(success, joined) ==
    /\ out.ctx # <<>>
    /\ LET id == out.ctx[Len(out.ctx)]
       IN  out' = [spinners |-> [out.spinners EXCEPT
                                    ![id] = SpinnerStop(@, success, joined)],
                   active |-> IF out.active = id THEN NoSpinner ELSE out.active,
                   ctx |-> SubSeq(out.ctx, 1, Len(out.ctx) - 1),
                   line |-> LineAfterStop(out.spinners[id], id, out.line),
                   last |-> "exit"]
    /\ UNCHANGED <<ragvars, pd, llm, tool>>

\* Spinner._render: one pass of the loop that writes a frame
Render(id) ==
    /\ id \in 1..Len(out.spinners)
    /\ out.spinners[id].thread = "running"
    /\ ~out.spinners[id].stop_event
    /\ out' = [out EXCEPT !.line = IF out.spinners[id].stopped THEN @ ELSE id]
    /\ UNCHANGED <<ragvars, pd, llm, tool>>

\* Spinner._render: the loop sees the stop event and the thread ends
RenderExit(id) ==
    /\ id \in 1..Len(out.spinners)
    /\ out.spinners[id].thread = "running"
    /\ out.spinners[id].stop_event
    /\ out' = [out EXCEPT !.spinners[id].thread = "done"]
    /\ UNCHANGED <<ragvars, pd, llm, tool>>

NextOutput ==
    \/ \E joined \in BOOLEAN : EnterSpinner(joined)
    \/ \E joined \in BOOLEAN : SafeOutput(joined)
    \/ \E success \in BOOLEAN, joined \in BOOLEAN : ExitSpinner(success, joined)
    \/ \E id \in 1..MaxSpinners : Render(id)
    \/ \E id \in 1..MaxSpinners : RenderExit(id)

SpecOutput == Init /\ [][NextOutput]_vars

(***************************************************************************)
(* The LLM instance (src/src/config.py) and get_agent                      *)
(*                                                                         *)
(* llm.instance is _llm_instance, llm.env the MODEL_NAME of os.environ,    *)
(* llm.config_model and llm.config_temp are Config.MODEL_NAME and          *)
(* Config.TEMPERATURE.  llm.op is the last call, llm.before the instance   *)
(* it found, llm.ret the instance it returned, llm.updated the model of    *)
(* the last update_llm_model, llm.agent the model instance of the last     *)
(* agent made.                                                             *)
(***************************************************************************)
DefaultModel == "glm-4.6:cloud"
Models == {DefaultModel, "mistral:latest", "llama3:latest"}
Temperatures == {0, 7}
\* strategy numbers given to get_agent: one of STRATEGIES and one that is not
StrategyNumbers == {4, 11}
ValidStrategy(n) == n \in 1..10

ChatOllama(model, temperature) == [model |-> model, temperature |-> temperature]

\* lines 25-35 and 217: load_dotenv, the class body of Config, llm = get_llm()
ImportConfig(env_model, env_temp) ==
    /\ ~llm.imported
    /\ LET config_model == IF env_model # NoModel THEN env_model ELSE DefaultModel
           first == ChatOllama(config_model, env_temp)
       IN  llm' = [imported |-> TRUE, instance |-> first, env |-> env_model,
                   config_model |-> config_model, config_temp |-> env_temp,
                   op |-> [name |-> "import", model |-> NoModel,
                           temperature |-> NoTemperature],
                   before |-> NoInstance, ret |-> first,
                   updated |-> NoModel, agent |-> NoInstance]
    /\ UNCHANGED <<ragvars, out, pd, tool>>

\* lines 157-158
TargetModel(l, model) ==
    IF model # NoModel THEN model
    ELSE IF l.env # NoModel THEN l.env ELSE l.config_model

TargetTemp(l, temperature) ==
    IF temperature # NoTemperature THEN temperature ELSE l.config_temp

\* lines 161-167: the instance get_llm leaves in _llm_instance and returns
InstanceAfterGet(l, model, temperature) ==
    IF l.instance = NoInstance \/ model # NoModel
    THEN ChatOllama(TargetModel(l, model), TargetTemp(l, temperature))
    ELSE l.instance

GetLlm(model, temperature) ==
    /\ llm.imported
    /\ LET i == InstanceAfterGet(llm, model, temperature)
       IN  llm' = [llm EXCEPT !.instance = i, !.ret = i, !.before = llm.instance,
                              !.op = [name |-> "get_llm", model |-> model,
                                      temperature |-> temperature]]
    /\ UNCHANGED <<ragvars, out, pd, tool>>

\* update_llm_model
UpdateLlmModel(model_name) ==
    /\ llm.imported
    /\ LET i == ChatOllama(model_name, llm.config_temp)
       IN  llm' = [llm EXCEPT !.env = model_name, !.config_model = model_name,
                              !.instance = i, !.ret = i, !.before = llm.instance,
                              !.updated = model_name,
                              !.op = [name |-> "update_llm_model",
                                      model |-> model_name,
                                      temperature |-> NoTemperature]]
    /\ UNCHANGED <<ragvars, out, pd, tool>>

\* reset_llm
ResetLlm ==
    /\ llm.imported
    /\ LET i == InstanceAfterGet([llm EXCEPT !.instance = NoInstance],
                                 NoModel, NoTemperature)
       IN  llm' = [llm EXCEPT !.instance = i, !.ret = i, !.before = llm.instance,
                              !.op = [name |-> "reset_llm", model |-> NoModel,
                                      temperature |-> NoTemperature]]
    /\ UNCHANGED <<ragvars, out, pd, tool>>

\* core_agents.get_agent: create_agent_for_strategy passes get_llm() as the
\* model of the agent; a number that is no strategy raises ValueError
GetAgent(strategy_number) ==
    /\ llm.imported
    /\ LET i == InstanceAfterGet(llm, NoModel, NoTemperature)
       IN  llm' = IF ValidStrategy(strategy_number)
                  THEN [llm EXCEPT !.instance = i, !.agent = i,
                                   !.before = llm.instance,
                                   !.op = [name |-> "get_agent", model |-> NoModel,
                                           temperature |-> NoTemperature]]
                  ELSE [llm EXCEPT !.before = llm.instance,
                                   !.op = [name |-> "get_agent raised",
                                           model |-> NoModel,
                                           temperature |-> NoTemperature]]
    /\ UNCHANGED <<ragvars, out, pd, tool>>

NextLlm ==
    \/ \E m \in Models \cup {NoModel}, t \in Temperatures : ImportConfig(m, t)
    \/ \E m \in Models \cup {NoModel}, t \in Temperatures \cup {NoTemperature} :
          GetLlm(m, t)
    \/ \E m \in Models : UpdateLlmModel(m)
    \/ ResetLlm
    \/ \E n \in StrategyNumbers : GetAgent(n)

SpecLlm == Init /\ [][NextLlm]_vars

(***************************************************************************)
(* save_report_and_ingest (src/src/tools_module.py) and auto_ingest_report *)
(*                                                                         *)
(* tool.files are the paths written under reports/, tool.files_before and  *)
(* tool.store_before what the directory and the store held when the call   *)
(* started, tool.attempted whether auto_ingest_report was called, and      *)
(* tool.message the parts of the text the call returns.                    *)
(***************************************************************************)
MinSaveLen == 10

\* reports of n characters between whitespace
TinyText(n) == <<" ">> \o Rep("t", n) \o <<"\n">>

Reports ==
    {EmptyText, ShortText, TinyText(MinSaveLen - 1), TinyText(MinSaveLen),
     PaddedShortText, ExactText, LongText}
Filenames == {"a", "b"}
NoState == <<>>
ResearchState ==
    [quality_score |-> 8, confidence_scores |-> <<>>, iteration_count |-> 2,
     refinement_count |-> 1]
ToolCalls ==
    [report : Reports, topic : {"A"}, filename : Filenames,
     state : {NoState, ResearchState}]

MdPath(filename) == <<"reports/", filename, ".md">>
PdfPath(filename) == <<"reports/", filename, ".pdf">>

\* auto_ingest_report, lines 286-294: the metadata taken from the state and
\* the add_report call with the default chunk sizes
StateMetadata(state) ==
    IF DOMAIN state = {} THEN NoMetadata
    ELSE [quality_score |-> state.quality_score,
          confidence_scores |-> "str(confidence_scores)",
          iteration_count |-> state.iteration_count,
          refinement_count |-> state.refinement_count]

IngestArgs(a) ==
    [content |-> a.report, topic |-> a.topic, metadata |-> StateMetadata(a.state),
     chunk_size |-> DefaultChunkSize, chunk_overlap |-> DefaultChunkOverlap]

\* lines 113-128: rag_status
RagStatus(rag_result) ==
    IF rag_result.success
    THEN [label |-> "RAG", indexed |-> TRUE, value |-> rag_result.chunks_added]
    ELSE [label |-> "RAG", indexed |-> FALSE, value |-> rag_result.error]

\* lines 130-138: the text returned after the Markdown file was written
SavedMessage(a, pdf_status) ==
    << [label |-> "Report saved successfully!", value |-> TRUE],
       [label |-> "Markdown", value |-> MdPath(a.filename)],
       [label |-> "PDF", value |-> pdf_status],
       [label |-> "Topic", value |-> a.topic],
       [label |-> "Length", value |-> Len(a.report)],
       [label |-> "Timestamp", value |-> clock] >>

\* lines 61-102 with the report refused below the 100 characters of line 62
ToolSaveSkipsShort(t, a, md_ok, pdf_ok) ==
    /\ rd = None
    /\ tool.phase = "idle"
    /\ pc[t] = "idle"
    /\ clock < MaxClock
    /\ LET started == [tool EXCEPT !.args = a, !.files_before = tool.files,
                                   !.store_before = store]
       IN  tool' =
             IF Len(strip(a.report)) < MinContentLen
             THEN [started EXCEPT
                      !.phase = "done",
                      !.message = << [label |-> "Report is too short",
                                      value |-> FALSE] >>]
             ELSE IF ~md_ok
             THEN [started EXCEPT
                      !.phase = "done",
                      !.message = << [label |-> "Failed to save Markdown report",
                                      value |-> FALSE] >>]
             ELSE [started EXCEPT
                      !.phase = "ingest",
                      !.md_saved = TRUE,
                      !.files = tool.files \cup {MdPath(a.filename)}
                                \cup (IF pdf_ok THEN {PdfPath(a.filename)} ELSE {}),
                      !.message = SavedMessage(a, pdf_ok)]
    /\ UNCHANGED <<ragvars, out, pd, llm>>

\* lines 61-102: the check of the report, the Markdown file, the PDF
ToolSave(t, a, md_ok, pdf_ok) ==
    /\ rd = None
    /\ tool.phase = "idle"
    /\ pc[t] = "idle"
    /\ clock < MaxClock
    /\ LET started == [tool EXCEPT !.args = a, !.files_before = tool.files,
                                   !.store_before = store]
       IN  tool' =
             IF Len(strip(a.report)) < MinSaveLen
             THEN [started EXCEPT
                      !.phase = "done",
                      !.message = << [label |-> "Report is too short",
                                      value |-> FALSE] >>]
             ELSE IF ~md_ok
             THEN [started EXCEPT
                      !.phase = "done",
                      !.message = << [label |-> "Failed to save Markdown report",
                                      value |-> FALSE] >>]
             ELSE [started EXCEPT
                      !.phase = "ingest",
                      !.md_saved = TRUE,
                      !.files = tool.files \cup {MdPath(a.filename)}
                                \cup (IF pdf_ok THEN {PdfPath(a.filename)} ELSE {}),
                      !.message = SavedMessage(a, pdf_ok)]
    /\ UNCHANGED <<ragvars, out, pd, llm>>

\* lines 108-112 and auto_ingest_report: add_report is called
ToolIngest(t) ==
    /\ tool.phase = "ingest"
    /\ AddReportCall(t, IngestArgs(tool.args))

\* auto_ingest_report when RAGIngestion() raises: RAG_DIR is not configured
ToolIngestUnavailable(t) ==
    /\ rd = None
    /\ tool.phase = "ingest"
    /\ pc[t] = "idle"
    /\ tool' = [tool EXCEPT
                    !.phase = "done",
                    !.attempted = TRUE,
                    !.rag_status = RagStatus([success |-> FALSE,
                                              error |-> "RAG_DIR not configured"])]
    /\ UNCHANGED <<ragvars, out, pd, llm>>

\* lines 113-138: add_report has returned; the status text is returned
ToolReturn(t) ==
    /\ rd = None
    /\ tool.phase = "ingest"
    /\ pc[t] = "returned"
    /\ tool' = [tool EXCEPT !.phase = "done", !.attempted = TRUE,
                            !.rag_status = RagStatus(result[t])]
    /\ pc' = [pc EXCEPT ![t] = "idle"]
    /\ call' = [call EXCEPT ![t] = None]
    /\ result' = [result EXCEPT ![t] = None]
    /\ UNCHANGED <<store, clock, batch, rd, out, pd, llm>>

\* the caller has the text; the files stay
ToolDone ==
    /\ tool.phase = "done"
    /\ tool' = [ToolInit EXCEPT !.files = tool.files]
    /\ UNCHANGED <<ragvars, out, pd, llm>>

NextTool ==
    \/ \E t \in Sequential, a \in ToolCalls, md_ok \in BOOLEAN, pdf_ok \in BOOLEAN :
          ToolSave(t, a, md_ok, pdf_ok)
    \/ \E t \in Sequential : ToolIngest(t)
    \/ \E t \in Sequential : ToolIngestUnavailable(t)
    \/ \E t \in Sequential, o \in WriteOutcomes : AddReportWrite(t, o)
    \/ \E t \in Sequential : ToolReturn(t)
    \/ ToolDone

SpecTool == Init /\ [][NextTool]_vars

(***************************************************************************)
(* ProgressDisplay (src/src/ui/progress_display.py)                        *)
(*                                                                         *)
(* pd.threads[i] is where the i-th spinner thread is in _spinner_loop:     *)
(* "test" before the test of the stop event, "render" before the block     *)
(* under the lock, "wait" in the wait on the stop event, "done" after the  *)
(* loop.  pd.line is the thread whose status line is on the terminal,      *)
(* pd.caller[t] whether thread t is in stop() after it released the lock.  *)
(***************************************************************************)
MaxSpinnerThreads == 3

\* ProgressDisplay.start, lines 150-164
Start(t) ==
    /\ pd.caller[t] = "idle"
    /\ Len(pd.threads) < MaxSpinnerThreads
    /\ pd' = IF pd.active THEN pd
             ELSE [pd EXCEPT !.active = TRUE,
                             !.stop_event = FALSE,
                             !.threads = Append(@, "test"),
                             !.spinner_thread = Len(pd.threads) + 1]
    /\ UNCHANGED <<ragvars, out, llm, tool>>

\* ProgressDisplay.stop, lines 168-173: the part under the lock
Stop(t) ==
    /\ pd.caller[t] = "idle"
    /\ pd' = IF ~pd.active THEN pd
             ELSE [pd EXCEPT !.active = FALSE,
                             !.stop_event = TRUE,
                             !.caller[t] = "join"]
    /\ UNCHANGED <<ragvars, out, llm, tool>>

\* ProgressDisplay.stop, lines 175-179: the join ends, because the spinner
\* thread ended or after 0.5 s, and the completion line is printed
StopJoin(t) ==
    /\ pd.caller[t] = "join"
    /\ pd' = [pd EXCEPT !.caller[t] = "idle", !.line = NoSpinner]
    /\ UNCHANGED <<ragvars, out, llm, tool>>

\* _spinner_loop, line 294
SpinnerLoopTest(i) ==
    /\ i \in 1..Len(pd.threads)
    /\ pd.threads[i] = "test"
    /\ pd' = [pd EXCEPT !.threads[i] = IF pd.stop_event THEN "done" ELSE "render"]
    /\ UNCHANGED <<ragvars, out, llm, tool>>

\* _spinner_loop, lines 295-297
SpinnerLoopRender(i) ==
    /\ i \in 1..Len(pd.threads)
    /\ pd.threads[i] = "render"
    /\ pd' = [pd EXCEPT !.threads[i] = "wait",
                        !.line = IF pd.active THEN i ELSE @]
    /\ UNCHANGED <<ragvars, out, llm, tool>>

\* _spinner_loop, line 298: the wait ends after 0.1 s or when the event is set
SpinnerLoopWait(i) ==
    /\ i \in 1..Len(pd.threads)
    /\ pd.threads[i] = "wait"
    /\ pd' = [pd EXCEPT !.threads[i] = "test"]
    /\ UNCHANGED <<ragvars, out, llm, tool>>

NextProgress ==
    \/ \E t \in Threads : Start(t)
    \/ \E t \in Threads : Stop(t)
    \/ \E t \in Threads : StopJoin(t)
    \/ \E i \in 1..MaxSpinnerThreads : SpinnerLoopTest(i)
    \/ \E i \in 1..MaxSpinnerThreads : SpinnerLoopRender(i)
    \/ \E i \in 1..MaxSpinnerThreads : SpinnerLoopWait(i)

SpecProgress == Init /\ [][NextProgress]_vars

(***************************************************************************)
(* Properties                                                              *)
(***************************************************************************)
\* a direct add_report call of thread t has returned
Returned(t) == pc[t] = "returned" /\ batch[t] = None

\* empty, or fewer than 100 characters once trimmed
BelowMinimum(content) == content = <<>> \/ Len(strip(content)) < MinContentLen

\* C1: add_report with content that is empty or whose trimmed length is
\* below 100 returns success = false with the too-short error, builds no
\* chunks, never reaches the store write, and leaves the store as it was.
C1_ShortContentRejected ==
    [][\A t \in Threads :
          (/\ pc[t] = "idle" /\ pc'[t] # "idle" /\ batch'[t] = None
           /\ BelowMinimum(call'[t].args.content))
          => /\ pc'[t] = "returned"
             /\ result'[t].success = FALSE
             /\ result'[t].error = TooShortError
             /\ call'[t].documents = <<>>
             /\ store' = store]_vars

\* a non-empty report of trimmed length 99 was rejected while the store
\* held chunks
C1_Witness ==
    \E t \in Threads :
        /\ Returned(t)
        /\ call[t].args.content = PaddedShortText
        /\ result[t].success = FALSE
        /\ result[t].error = TooShortError
        /\ store # <<>>

\* a verify_ingestion that ran without error, for the topic of the add_report
\* call that thread t has just made
VerifiedAfter(t) ==
    /\ rd # None
    /\ rd.op = "verify_ingestion"
    /\ "error" \notin DOMAIN rd.result
    /\ Returned(t)
    /\ rd.topic = call[t].args.topic

\* C2: after add_report(content, topic) has succeeded for content of trimmed
\* length >= 100, verify_ingestion(topic) yields found = true and
\* chunks_found >= 1, whatever else the store holds.
C2_VerifyFindsIngested ==
    \A t \in Threads :
        (/\ VerifiedAfter(t)
         /\ ~BelowMinimum(call[t].args.content)
         /\ call[t].args.metadata = NoMetadata
         /\ result[t].success)
        => rd.result.found /\ rd.result.chunks_found >= 1

\* C3: the records persisted by one successful add_report call carry the
\* chunk_id values 0, 1, ..., n-1, each once, and all carry total_chunks = n,
\* where n is the chunks_added that call returned.
C3_ChunkIdsContiguous ==
    /\ \A id \in {store[k].id[1] : k \in 1..Len(store)} :
          LET recs == RecordsOf(store, id)
              n == Len(recs)
          IN  \* n records with the n values 0..n-1: each value once
              /\ {recs[i].metadata.chunk_id : i \in 1..n} = 0..(n - 1)
              /\ \A i \in 1..n : recs[i].metadata.total_chunks = n
    /\ \A t \in Threads :
          (Returned(t) /\ result[t].success)
          => Len(RecordsOf(store, call[t].id)) = result[t].chunks_added

\* a call has returned chunks_added = 3 and the store holds its three records,
\* written after those of an earlier call
C3_Witness ==
    \E t \in Threads :
        /\ Returned(t)
        /\ result[t].success
        /\ result[t].chunks_added = 3
        /\ Len(RecordsOf(store, call[t].id)) = 3
        /\ Len(store) > 3

C5_ReaderSeesWholeDocuments ==
    rd # None =>
        \A t \in Threads :
            call[t] # None =>
                LET k == Len(RecordsOf(store, call[t].id))
                IN  k = 0 \/ k = Len(call[t].documents)

\* verify_ingestion ran while a call had built three documents and not yet
\* written them
C5_Witness ==
    \E t \in Threads :
        /\ rd # None
        /\ rd.op = "verify_ingestion"
        /\ pc[t] = "write"
        /\ Len(call[t].documents) = 3
        /\ store # <<>>

\* an add_multiple_reports call of thread t has returned
BatchReturned(t) == pc[t] = "returned" /\ batch[t] # None

ScenarioD == <<GoodEntry("A"), EmptyEntry("B"), GoodEntry("B")>>

\* C6: add_multiple_reports returns successful + failed = the number of
\* reports and one detail per report in input order; successful counts the
\* details with success = true; three reports of which the second is empty
\* and the others are ingested give successful = 2, failed = 1.
C6_BatchCountsAddUp ==
    \A t \in Threads :
        BatchReturned(t) =>
            LET r == result[t]
                reports == batch[t].reports
                n == Len(reports)
            IN  /\ r.successful + r.failed = n
                /\ Len(r.details) = n
                /\ \A i \in 1..n : r.details[i].topic = reports[i].topic
                /\ r.successful = Cardinality({i \in 1..n : r.details[i].success})
                /\ \A i \in 1..n :
                      BelowMinimum(reports[i].content) => ~r.details[i].success
                /\ (reports = ScenarioD /\ r.details[1].success
                       /\ r.details[3].success)
                   => r.successful = 2 /\ r.failed = 1

\* the three reports of scenario D returned successful = 2, failed = 1
C6_Witness ==
    \E t \in Threads :
        /\ BatchReturned(t)
        /\ batch[t].reports = ScenarioD
        /\ result[t].successful = 2
        /\ result[t].failed = 1

\* C7: in add_multiple_reports a report that fails, whatever the cause, is
\* captured in its detail and the reports after it are still attempted:
\* the call ends with one detail per report.
C7_BatchContinuesPastFailures ==
    \A t \in Threads :
        (batch[t] # None /\ pc[t] \in {"returned", "raised"})
        => Len(batch[t].details) = Len(batch[t].reports)

\* C8: every record persisted by add_report(content, topic, metadata) has
\* the topic argument as its topic, also when the metadata has a topic key;
\* source, created_at and collection take the caller's value when given.
C8_TopicIsArgument ==
    \A t \in Threads :
        call[t] # None =>
            LET recs == RecordsOf(store, call[t].id)
                given == call[t].args.metadata
            IN  \A i \in 1..Len(recs) :
                    /\ recs[i].metadata.topic = call[t].args.topic
                    /\ \A k \in {"source", "created_at", "collection"}
                                  \cap DOMAIN given :
                          recs[i].metadata[k] = given[k]

\* C9: every record of the store has text that is not empty and not only
\* whitespace, and carries topic and created_at metadata.
C9_ChunksWellFormed ==
    \A k \in 1..Len(store) :
        /\ strip(store[k].page_content) # <<>>
        /\ {"topic", "created_at"} \subseteq DOMAIN store[k].metadata

\* the store holds the two chunks left of a report split one character at a
\* time, of whose pieces 98 were spaces, and the chunk of a report of a batch
C9_Witness ==
    /\ \E k \in 1..Len(store) :
          /\ store[k].page_content = <<"e">>
          /\ store[k].metadata.total_chunks = 2
    /\ \E t \in Threads : BatchReturned(t) /\ result[t].successful = 1

\* a result carrying success or found, plus message or error
Structured(r) ==
    /\ {"success", "found"} \cap DOMAIN r # {}
    /\ {"message", "error"} \cap DOMAIN r # {}

\* a thread is left by an exception only at a report entry without content
RaisedOnlyOnMalformed ==
    \A t \in Threads :
        pc[t] = "raised" =>
            /\ batch[t] # None
            /\ ~WellFormed(batch[t].reports[batch[t].i])

\* C10: no operation raises for an expected failure, and every
\* result carries success or found plus a message or error.
C10_StructuredResults ==
    /\ RaisedOnlyOnMalformed
    /\ \A t \in Threads : Returned(t) => Structured(result[t])
    /\ \A t \in Threads : BatchReturned(t) => Structured(result[t])
    /\ (rd # None /\ rd.op = "verify_ingestion") => Structured(rd.result)
    \* list_ingested_reports returns a bare list, which carries no key
    /\ ~(rd # None /\ rd.op = "list_ingested_reports")

\* C11: a verify_ingestion or list_ingested_reports that cannot reach the
\* store gives its caller an error that the normal zero-match outcome does
\* not give: an error key for verify_ingestion, and for
\* list_ingested_reports something other than the empty list of an empty
\* store.
C11_StoreFailureDistinguishable ==
    (rd # None /\ ~rd.store_ok) =>
        /\ rd.op = "verify_ingestion" => "error" \in DOMAIN rd.result
        /\ rd.op = "list_ingested_reports" => rd.result # ListLoop(<<>>, 1, <<>>)

\* a verify_ingestion, reaching the store or not, for the topic of the
\* rejected add_report call that thread t has just made
VerifiedAfterRejected(t) ==
    /\ rd # None
    /\ rd.op = "verify_ingestion"
    /\ Returned(t)
    /\ BelowMinimum(call[t].args.content)
    /\ rd.topic = call[t].args.topic

\* the store holds a record whose topic metadata is topic
TopicStored(topic) == \E k \in 1..Len(store) : store[k].metadata.topic = topic

Matching(docs, topic) ==
    {i \in 1..Len(docs) : docs[i].metadata.topic = topic}

\* res is what verify_ingestion owes for the retrieved docs
VerifyAnswer(res, docs, topic) ==
    LET hits == Matching(docs, topic)
    IN  /\ res.total_results = Len(docs)
        /\ res.chunks_found = Cardinality(hits)
        /\ res.found = (res.chunks_found > 0)
        /\ res.sample_content =
              IF hits = {} THEN NoneText
              ELSE LET text == docs[SetMin(hits)].page_content
                   IN  [j \in 1..(IF Len(text) < SampleLen THEN Len(text)
                                  ELSE SampleLen) |-> text[j]]
        /\ res.chunks_found <= res.total_results
        /\ res.total_results <= VerifyK

\* C13: a verify_ingestion(topic, query) that reaches the store searches for
\* the query, or for the topic when no query is given, and answers from the
\* 3 best-ranked records (all of them when the store holds fewer):
\* total_results is their number, chunks_found the number of them with the
\* requested topic, found = (chunks_found > 0), sample_content the first 200
\* characters of the first of them with the topic, or null; so
\* chunks_found <= total_results <= 3.
C13_VerifyResultShape ==
    [][(rd = None /\ rd' # None /\ rd'.op = "verify_ingestion" /\ rd'.store_ok)
       => /\ rd'.search_query \in (Queries \ {NoQuery}) \cup {rd'.topic}
          /\ \E first \in 1..(IF store = <<>> THEN 1 ELSE Len(store)),
                fw \in BOOLEAN :
                LET n == IF Len(store) < VerifyK THEN Len(store) ELSE VerifyK
                    ranking == Rotation(Len(store), first, fw)
                    docs == [i \in 1..n |-> store[ranking[i]]]
                IN  VerifyAnswer(rd'.result, docs, rd'.topic)]_vars

\* verify_ingestion found one record of the topic among three results and
\* returned 200 characters of a longer chunk
C13_Witness ==
    /\ rd # None
    /\ rd.op = "verify_ingestion"
    /\ rd.store_ok
    /\ rd.result.total_results = VerifyK
    /\ rd.result.chunks_found = 1
    /\ Len(rd.result.sample_content) = SampleLen
    /\ \E k \in 1..Len(store) : Len(store[k].page_content) > SampleLen

\* C14: verify_ingestion, list_ingested_reports and search leave the store
\* as it was, the records and their metadata, whether they reach the store
\* or fail.
C14_ReadsLeaveStore ==
    [][(rd = None /\ rd' # None) => store' = store]_vars

\* a search has returned five of the records of the store
C14_Witness ==
    /\ rd # None
    /\ rd.op = "search_rag"
    /\ rd.store_ok
    /\ Len(rd.result) = SearchK

\* the topics of the sampled records, the empty topic left out
SampledTopics(docs) ==
    {docs[i].metadata.topic : i \in 1..Len(docs)} \ {""}

\* listing is what list_ingested_reports owes for the sample docs
ListAnswer(listing, docs) ==
    /\ Len(docs) <= ListK
    /\ {listing[j].topic : j \in 1..Len(listing)} = SampledTopics(docs)
    /\ Len(listing) = Cardinality(SampledTopics(docs))
    /\ \A j \in 1..Len(listing) :
          LET first == SetMin(Matching(docs, listing[j].topic))
          IN  /\ listing[j].created_at = docs[first].metadata.created_at
              /\ listing[j].chunks = docs[first].metadata.total_chunks

\* C15: a list_ingested_reports that reaches the store answers from one
\* sample of at most 100 records: one entry per topic of the sample, with the
\* created_at and total_chunks of the first record of that topic in the
\* order of the sample; records with an empty topic give no entry, and a
\* topic with no record in the sample is not listed.
C15_ListFromOneSample ==
    [][(/\ rd = None /\ rd' # None
        /\ rd'.op = "list_ingested_reports" /\ rd'.store_ok)
       => LET n == IF Len(store) < ListK THEN Len(store) ELSE ListK
              docs == [i \in 1..n |-> store[rd'.ranking[i]]]
          IN  ListAnswer(rd'.result, docs)]_vars

\* the store holds more than 100 records, some of them of topic B, and the
\* listing shows topic A only
C15_Witness ==
    /\ rd # None
    /\ rd.op = "list_ingested_reports"
    /\ rd.store_ok
    /\ Len(store) > ListK
    /\ TopicStored("B")
    /\ Len(rd.result) = 1
    /\ rd.result[1].topic = "A"

\* the number of records of st stored under topic
TopicCount(st, topic) ==
    Cardinality({k \in 1..Len(st) : st[k].metadata.topic = topic})

\* recs are the records of an earlier call with the texts, the order and the
\* topic of documents
SameReport(recs, documents) ==
    /\ Len(recs) = Len(documents)
    /\ \A i \in 1..Len(recs) :
          /\ recs[i].page_content = documents[i].page_content
          /\ recs[i].metadata.topic = documents[i].metadata.topic

\* C16: add_report is not idempotent: when a report whose content and topic
\* were ingested once, by the only call stored under the topic, is ingested
\* again, the second call returns the chunks_added of the first and the
\* number of records stored under the topic doubles.
C16_ReingestionDoubles ==
    [][\A t \in Threads :
          \A id \in {store[k].id[1] : k \in 1..Len(store)} :
              LET first == RecordsOf(store, id)
                  topic == first[1].metadata.topic
              IN  (/\ pc[t] = "write" /\ pc'[t] = "returned"
                   /\ batch[t] = None /\ result'[t].success
                   /\ SameReport(first, call[t].documents)
                   /\ TopicCount(store, topic) = Len(first))
                  => /\ result'[t].chunks_added = Len(first)
                     /\ TopicCount(store', topic) = 2 * Len(first)
                     /\ Len(RecordsOf(store', call[t].id)) = Len(first)]_vars

\* the same three-chunk report was ingested twice and the store holds six
\* records of its topic
C16_Witness ==
    \E t \in Threads :
        /\ Returned(t)
        /\ result[t].success
        /\ result[t].chunks_added = 3
        /\ call[t].id = 2
        /\ SameReport(RecordsOf(store, 1), call[t].documents)
        /\ TopicCount(store, call[t].args.topic) = 6

\* the non-empty chunks the splitter gives for the report of call c, in order
ChunksOf(c) == Chunks(c.args.content, c.args.chunk_size, c.args.chunk_overlap)

\* C17: chunk_id follows the order of chunking and is fixed before the
\* documents are handed to the embedding and the store: the document and the
\* stored record with chunk_id i hold the (i+1)-th non-empty chunk of the
\* splitter.
C17_ChunkIdFollowsChunking ==
    \A t \in Threads :
        (call[t] # None /\ call[t].documents # <<>>) =>
            LET c == call[t]
                recs == RecordsOf(store, c.id)
            IN  /\ Len(c.documents) = Len(ChunksOf(c))
                /\ \A i \in 1..Len(c.documents) :
                      c.documents[i].page_content =
                          ChunksOf(c)[c.documents[i].metadata.chunk_id + 1]
                /\ \A i \in 1..Len(recs) :
                      recs[i].page_content =
                          ChunksOf(c)[recs[i].metadata.chunk_id + 1]

\* three different chunks are numbered and not yet handed to the store
C17_Witness ==
    \E t \in Threads :
        /\ pc[t] = "write"
        /\ Len(call[t].documents) = 3
        /\ call[t].documents[3].metadata.chunk_id = 2
        /\ ChunksOf(call[t])[1] # ChunksOf(call[t])[3]
        /\ RecordsOf(store, call[t].id) = <<>>

\* the records the call c owes the store: its chunks in order, numbered
\* 0..n-1, with total_chunks = n and its own topic
OwnRecords(c) ==
    LET chunks == ChunksOf(c)
    IN  [i \in 1..Len(chunks) |->
            [page_content |-> chunks[i], topic |-> c.args.topic,
             chunk_id |-> i - 1, total_chunks |-> Len(chunks)]]

\* what the store holds of the records written by the call id
StoredRecords(id) ==
    LET recs == RecordsOf(store, id)
    IN  [i \in 1..Len(recs) |->
            [page_content |-> recs[i].page_content,
             topic |-> recs[i].metadata.topic,
             chunk_id |-> recs[i].metadata.chunk_id,
             total_chunks |-> recs[i].metadata.total_chunks]]

\* C18: two add_report calls for different reports that run at the same
\* time do not interfere: whatever the interleaving, a call that returned
\* success has exactly its own chunks in the store, numbered 0..n-1 with its
\* total_chunks and its topic, also after the other call has written; a call
\* that has not written or has failed has none; and the store holds nothing
\* else.
C18_ConcurrentCallsIndependent ==
    /\ \A t \in Threads :
          call[t] # None =>
              StoredRecords(call[t].id) =
                  IF pc[t] = "returned" /\ result[t].success
                  THEN OwnRecords(call[t]) ELSE <<>>
    /\ \A t \in Threads :
          (pc[t] = "returned" /\ result[t].success)
          => result[t].chunks_added = Len(OwnRecords(call[t]))
    /\ \A k \in 1..Len(store) :
          \A t \in Threads, u \in Threads :
              (t # u /\ call[t] # None /\ call[u] # None
               /\ store[k].id[1] = call[t].id)
              => store[k].metadata.topic # call[u].args.topic

\* the call that started first wrote last, and both calls have their records
C18_Witness ==
    /\ \A t \in Threads : Returned(t) /\ result[t].success
    /\ call[1].id = 1
    /\ call[2].id = 2
    /\ store[1].id[1] = 2
    /\ Len(RecordsOf(store, 1)) = 3
    /\ Len(RecordsOf(store, 2)) = 2

\* C19: an add_multiple_reports call always returns in the end, with a
\* detail for every report, also when the store or embedding call of one of
\* its reports never answers.
C19_BatchAlwaysReturns ==
    \A t \in Threads :
        (batch[t] # None /\ pc[t] # "returned")
        ~> (/\ BatchReturned(t)
            /\ Len(result[t].details) = Len(batch[t].reports))

\* C20: a text that is not longer than chunk_size is split into exactly one
\* chunk, the text without its leading and trailing whitespace.
C20_ShortTextOneChunk ==
    \A t \in Threads :
        (/\ call[t] # None
         /\ ~BelowMinimum(call[t].args.content)
         /\ SplitterConfigOk(call[t].args.chunk_size, call[t].args.chunk_overlap)
         /\ Len(call[t].args.content) <= call[t].args.chunk_size)
        => /\ Len(ChunksOf(call[t])) = 1
           /\ ChunksOf(call[t])[1] = strip(call[t].args.content)
           /\ Len(call[t].documents) = 1
           /\ call[t].documents[1].page_content = strip(call[t].args.content)

\* a text with whitespace at both ends was split with chunk_size equal to
\* its length, and stored as one chunk two characters shorter
C20_Witness ==
    \E t \in Threads :
        /\ Returned(t)
        /\ result[t].success
        /\ call[t].args.content = ExactText
        /\ call[t].args.chunk_size = Len(ExactText)
        /\ result[t].chunks_added = 1
        /\ Len(RecordsOf(store, call[t].id)[1].page_content) = Len(ExactText) - 2

\* ceil((L - O) / (S - O)) for L > S, and 1 for L <= S
ExpectedChunks(L, S, O) ==
    IF L <= S THEN 1 ELSE ((L - O) + (S - O) - 1) \div (S - O)

\* C21: a document of length L split with chunk_size S and overlap O < S
\* gives ceil((L - O) / (S - O)) chunks when L > S and one chunk when
\* L <= S, and that many chunks are persisted; a document of 1,500
\* characters split with 1000 and 200 gives two.
C21_ChunkCountFormula ==
    \A t \in Threads :
        (/\ call[t] # None
         /\ ~BelowMinimum(call[t].args.content)
         /\ SplitterConfigOk(call[t].args.chunk_size, call[t].args.chunk_overlap)
         /\ call[t].args.chunk_overlap < call[t].args.chunk_size)
        => LET n == ExpectedChunks(Len(call[t].args.content),
                                   call[t].args.chunk_size,
                                   call[t].args.chunk_overlap)
           IN  /\ Len(call[t].documents) = n
               /\ (Returned(t) /\ result[t].success)
                  => Len(RecordsOf(store, call[t].id)) = n

NoWhitespace(text) == \A i \in 1..Len(text) : text[i] \notin Whitespace

\* C21 as amended: the count ceil((L - O) / (S - O)) for L > S is that of a
\* document with no whitespace in it, which none of the separators cuts;
\* every accepted document with L <= S gives one chunk.
C21_ChunkCountWithoutSeparators ==
    \A t \in Threads :
        (/\ call[t] # None
         /\ ~BelowMinimum(call[t].args.content)
         /\ SplitterConfigOk(call[t].args.chunk_size, call[t].args.chunk_overlap)
         /\ call[t].args.chunk_overlap < call[t].args.chunk_size
         /\ \/ Len(call[t].args.content) <= call[t].args.chunk_size
            \/ NoWhitespace(call[t].args.content))
        => LET n == ExpectedChunks(Len(call[t].args.content),
                                   call[t].args.chunk_size,
                                   call[t].args.chunk_overlap)
           IN  /\ Len(call[t].documents) = n
               /\ (Returned(t) /\ result[t].success)
                  => /\ Len(RecordsOf(store, call[t].id)) = n
                     /\ result[t].chunks_added = n

\* a run of 205 characters split with 45 and 10 is stored as six chunks
C21_Witness ==
    \E t \in Threads :
        /\ Returned(t)
        /\ result[t].success
        /\ call[t].args.content = WideText
        /\ call[t].args.chunk_size = SmallChunkSize
        /\ result[t].chunks_added = 6
        /\ Len(RecordsOf(store, call[t].id)) = 6

\* C22: every chunk the splitter produces and add_report persists is at most
\* chunk_size characters long, whatever the text; a run of characters longer
\* than chunk_size with no separator in it is cut at chunk_size.
C22_ChunksWithinSize ==
    \A t \in Threads :
        call[t] # None =>
            /\ \A i \in 1..Len(call[t].documents) :
                  Len(call[t].documents[i].page_content) <= call[t].args.chunk_size
            /\ \A i \in 1..Len(RecordsOf(store, call[t].id)) :
                  Len(RecordsOf(store, call[t].id)[i].page_content)
                      <= call[t].args.chunk_size
            /\ (call[t].documents # <<>>
                /\ \A i \in 1..Len(call[t].args.content) :
                       call[t].args.content[i] \notin Whitespace
                /\ Len(call[t].args.content) > call[t].args.chunk_size)
               => call[t].documents[1].page_content =
                      Prefix(call[t].args.content, call[t].args.chunk_size)

\* a run of 1,500 characters is stored as chunks of 1000 and 700 characters
C22_Witness ==
    \E t \in Threads :
        /\ Returned(t)
        /\ result[t].success
        /\ call[t].args.content = ScenarioRun
        /\ Len(RecordsOf(store, call[t].id)) = 2
        /\ Len(RecordsOf(store, call[t].id)[1].page_content) = DefaultChunkSize
        /\ Len(RecordsOf(store, call[t].id)[2].page_content) = 700

\* C23: a chunk_overlap greater than or equal to chunk_size is a
\* configuration error: add_report called with such values returns
\* success = false and persists nothing.
C23_OverlapNotBelowSizeRejected ==
    \A t \in Threads :
        (call[t] # None /\ call[t].args.chunk_overlap >= call[t].args.chunk_size)
        => /\ call[t].documents = <<>>
           /\ RecordsOf(store, call[t].id) = <<>>
           /\ Returned(t) => ~result[t].success

\* the render thread of the spinner id is writing frames
Animating(id) ==
    /\ out.spinners[id].thread = "running"
    /\ ~out.spinners[id].stop_event
    /\ ~out.spinners[id].stopped

\* C25: when the OutputManager prints a message while a spinner is active,
\* the spinner is stopped only while the message is printed: after the
\* print it is animating again, and it is still the active spinner; it
\* stays the active spinner until its own context exits.
C25_SpinnerResumesAfterPrint ==
    /\ (out.last = "print" /\ out.active # NoSpinner) => Animating(out.active)
    /\ out.active # NoSpinner => out.active \in {out.ctx[i] : i \in 1..Len(out.ctx)}

\* C26: get_llm returns an instance configured with the arguments it is
\* given: get_llm(model = m) returns an instance of model m and
\* get_llm(temperature = t) one with temperature t, whether or not an
\* instance existed; get_llm() returns the existing instance unchanged.
C26_GetLlmHonoursArguments ==
    llm.op.name = "get_llm" =>
        /\ llm.op.model # NoModel => llm.ret.model = llm.op.model
        /\ llm.op.temperature # NoTemperature
           => llm.ret.temperature = llm.op.temperature
        /\ (llm.op.model = NoModel /\ llm.op.temperature = NoTemperature
            /\ llm.before # NoInstance)
           => llm.ret = llm.before

\* C27: after update_llm_model(m), every get_llm() without arguments
\* returns an instance of model m, and every agent get_agent makes uses
\* model m, until the next update_llm_model, whatever get_llm and reset_llm
\* calls were made in between.
C27_UpdatedModelSticks ==
    llm.updated # NoModel =>
        /\ (llm.op.name = "get_llm" /\ llm.op.model = NoModel
            /\ llm.op.temperature = NoTemperature)
           => llm.ret.model = llm.updated
        /\ llm.op.name = "get_agent" => llm.agent.model = llm.updated

\* the length of the report of the running save_report_and_ingest call,
\* without the whitespace at its ends
TrimmedLen == Len(strip(tool.args.report))

\* add_report is running or has run for the report of the call
IngestionStarted ==
    tool.attempted \/ \E t \in Threads : call[t] # None

\* the call returned because writing the Markdown file raised
MarkdownFailed ==
    /\ tool.phase = "done"
    /\ tool.message[1].label = "Failed to save Markdown report"

\* C28: save_report_and_ingest writes no file and attempts no ingestion
\* when the trimmed report is shorter than 10 characters; for a longer
\* report it writes the Markdown file first and attempts ingestion only
\* after that write succeeded; a report of 10 to 99 trimmed characters is
\* saved to disk and never added to the knowledge base.
C28_SaveBeforeIngest ==
    tool.phase # "idle" =>
        /\ TrimmedLen < MinSaveLen
           => /\ tool.phase = "done"
              /\ tool.files = tool.files_before
              /\ ~IngestionStarted
              /\ store = tool.store_before
        /\ IngestionStarted
           => /\ tool.md_saved
              /\ MdPath(tool.args.filename) \in tool.files
        /\ TrimmedLen >= MinSaveLen => tool.md_saved \/ MarkdownFailed
        /\ (TrimmedLen >= MinSaveLen /\ tool.phase = "done" /\ tool.md_saved)
           => tool.attempted
        /\ (TrimmedLen >= MinSaveLen /\ ~tool.md_saved)
           => /\ tool.phase = "done"
              /\ ~IngestionStarted
              /\ store = tool.store_before
        /\ (TrimmedLen >= MinSaveLen /\ TrimmedLen < MinContentLen /\ tool.md_saved)
           => /\ MdPath(tool.args.filename) \in tool.files
              /\ store = tool.store_before
              /\ tool.phase = "done" => ~tool.rag_status.indexed

\* a report of 99 characters between whitespace was written to
\* reports/a.md, add_report refused it, and the store is still empty
C28_Witness ==
    /\ tool.phase = "done"
    /\ tool.args.report = PaddedShortText
    /\ tool.md_saved
    /\ tool.attempted
    /\ MdPath("a") \in tool.files
    /\ MdPath("a") \notin tool.files_before
    /\ ~tool.rag_status.indexed
    /\ tool.rag_status.value = TooShortError
    /\ store = <<>>

\* C29: the text save_report_and_ingest returns reports the outcome of the
\* ingestion, the number of chunks indexed or the reason of the failure,
\* besides the paths of the files it saved.
C29_MessageReportsIngestion ==
    (tool.phase = "done" /\ tool.attempted)
    => /\ \E i \in 1..Len(tool.message) :
             /\ tool.message[i].label = "Markdown"
             /\ tool.message[i].value = MdPath(tool.args.filename)
       /\ \E i \in 1..Len(tool.message) :
             /\ tool.message[i].label = "RAG"
             /\ tool.message[i] = tool.rag_status

\* the spinner threads that passed the test of their loop and render the
\* status line at their turn
Renderers == {i \in 1..Len(pd.threads) : pd.threads[i] = "render"}

\* C30: whatever the interleaving of start and stop calls of different
\* threads, at most one spinner thread renders the status line at a time,
\* and once the display is stopped and not started again every spinner
\* thread is told to end and none renders.
C30_OneSpinnerThread ==
    /\ pd.active => Cardinality(Renderers) <= 1
    /\ ~pd.active
       => \A i \in 1..Len(pd.threads) : pd.threads[i] # "done" => pd.stop_event
====
